---- MODULE Spec2Model ----
(***************************************************************************)
(* Order lifecycle of the marketplace backend: createOrder,                *)
(* updateOrderStatus and cancelOrder of src/Controllers/order.controller.js *)
(* running as concurrent request handlers over one database.               *)
(*                                                                         *)
(* A handler is cut at the awaits where another request can run in         *)
(* between.  A prisma.$transaction callback reads committed data           *)
(* (findUnique takes no lock), and its writes become visible together at   *)
(* commit; the writes of one transaction are therefore one step, the read  *)
(* that precedes them is another.                                          *)
(***************************************************************************)
EXTENDS Integers, Sequences, FiniteSets, Bags, TLC

\* ------------------------------------------------------------------ bounds
MaxInflight == 2      \* requests that may be between two awaits at once
MaxSuffix == 2        \* distinct values of the 4-character random suffix
MaxRows == 2          \* audit rows (so also orders) written in a run of Spec
MaxDepth == 4         \* audit rows of the order in a run of SpecLifecycle
MaxPrice == 3         \* largest of the small base prices in a run of SpecPricing
MaxPriced == 1        \* orders created in a run of SpecPricing

\* ---------------------------------------------------------------- fixtures
\* Rows the order controller only reads: users, the freelancer profile and
\* the gigs.  "u1" is a client, "u2" the user owning profile "f1", "u3" a
\* user who is party to no order.
Users == {"u1", "u2", "u3"}
ClientInputs == {"u1"}

\* req.user.id of createOrder in a run of SpecOwnGig: the user who owns the
\* provider profile of the gig; createOrder compares the two nowhere
OwnGigClientInputs == {"u2"}
GigIdInputs == {"g1", "g2", "g3"}
PackageInputs == {"Basic", "Gold"}
ExpressInputs == {FALSE}
ReasonInputs == {"NONE"}

\* req.body.cancellationReason of cancelOrder; "NONE" is an absent field
CancelReasonInputs == {"NONE", "client requested"}

\* enum OrderStatus after the order_updates migration
OrderStatus == {"PENDING", "CURRENT", "COMPLETED", "REJECTED"}

\* req.body.status as the handler can see it; "NONE" is an absent field
StatusInputs == OrderStatus \cup {"NONE"}

\* the date part of an order number; every request of a run falls on one day
DateInputs == {"20250713"}

\* gig.pricing of the gigs in the catalogue
Pricing == <<[name |-> "Basic", price |-> 100]>>

\* the values expressDelivery can take in a run of SpecPricing
PricedExpressInputs == BOOLEAN

\* the base prices of package "Basic" in a run of SpecPricing
PriceInputs == (0..MaxPrice) \cup {100}

VARIABLES
    orders,         \* table Order: sequence of rows, id = position
    history,        \* table OrderStatusHistory: per order id, rows in append order
    gigs,           \* table Gig: id -> row
    profiles,       \* table FreelancerProfile: id -> row
    notifications,  \* table Notification: bag of rows
    queued,         \* the job the last step added to the bull queue, NoJob if none
    inflight,       \* bag of handlers suspended at an await
    pending,        \* bag of promises createOrder started and did not await
    resp            \* the response the last step sent, NoResp if it sent none

vars == <<orders, history, gigs, profiles, notifications, queued, inflight, pending, resp>>

db == <<orders, history, gigs, profiles, notifications>>

\* ------------------------------------------------------------------ helpers
\* the shape of a suspended handler; fields a handler does not use are "NONE"
Handler(op, pc, user) ==
    [op |-> op, pc |-> pc, user |-> user, orderId |-> 0, status |-> "NONE",
     reason |-> "NONE", gigId |-> "NONE", package |-> "NONE", express |-> FALSE,
     orderNumber |-> <<>>, readStatus |-> "NONE", readVer |-> 0]

\* ApiResponse / ApiError handed to res.json or next()
MkResp(r, http, cause) == [op |-> r.op, http |-> http, cause |-> cause]

NoResp == [op |-> "NONE", http |-> 0, cause |-> "NONE"]

\* the job notificationQueue.add receives
Job(orderId, status) ==
    [orderId |-> orderId, status |-> status,
     type |-> IF status # "NONE" THEN "ORDER_STATUS_UPDATE" ELSE "ORDER_CREATED"]

NoJob == [orderId |-> 0, status |-> "NONE", type |-> "NONE"]

Suspended == BagToSet(inflight)

Remove(r) == inflight (-) SetToBag({r})

Add(r) == inflight (+) SetToBag({r})

\* `ORD-${yyyy}${mm}${dd}-${uuidv4().slice(0, 4).toUpperCase()}`
OrderNumberOf(date, suffix) == <<"ORD", date, suffix>>

\* the unique index on orderNumber left out of the schema
OrderNumberUnchecked(n) == TRUE

\* orderNumber String @unique
OrderNumberUnique(n) == \A o \in 1..Len(orders) : orders[o].orderNumber # n

\* pricingData.find((pkg) => pkg.name === selectedPackage)
FindPackage(pricingData, name) ==
    {i \in 1..Len(pricingData) : pricingData[i].name = name}

\* Amounts are JavaScript numbers stored in Float columns.  A base price is
\* an integer and the only factors are 1.5 and 0.5, so every amount is a
\* multiple of one half: the model keeps an amount as its number of halves
\* (100 is kept as 200, 150.5 as 301).

\* a price computed in an integer column: the half is cut off
TotalPriceTruncated(basePrice, express) ==
    IF express THEN 2 * ((3 * basePrice) \div 2) ELSE 2 * basePrice

\* expressDelivery ? basePrice * 1.5 : basePrice
TotalPrice(basePrice, express) ==
    IF express THEN 3 * basePrice ELSE 2 * basePrice

\* expressDelivery ? basePrice * 0.5 : null; null is the empty sequence
PriorityFee(basePrice, express) ==
    IF express THEN <<basePrice>> ELSE <<>>

\* order.freelancer.user as loaded by an include: the relation is present
\* only when the query asked for it
FreelancerUserOf(order, includeUser) ==
    IF includeUser THEN profiles[order.freelancerId].userId ELSE "UNDEFINED"

\* an order update that rewrites the latest audit row instead of adding one
StatusHistoryOverwrite(rows, row) ==
    IF rows = <<>> THEN <<row>> ELSE [rows EXCEPT ![Len(rows)] = row]

\* an update that writes the status and leaves the audit row out
StatusHistorySkip(rows, row) == rows

\* statusHistory: { create: {...} } nested in an order update
StatusHistoryCreate(rows, row) == Append(rows, row)

\* a table that lets a completed order be rejected afterwards
ValidTransitionsLoose(cur) ==
    CASE cur = "PENDING" -> {"CURRENT", "REJECTED"}
      [] cur = "CURRENT" -> {"COMPLETED", "REJECTED"}
      [] cur = "COMPLETED" -> {"REJECTED"}
      [] cur = "REJECTED" -> {}
      [] OTHER -> {}

\* validTransitions of updateOrderStatus
ValidTransitions(cur) ==
    CASE cur = "PENDING" -> {"CURRENT", "REJECTED"}
      [] cur = "CURRENT" -> {"COMPLETED", "REJECTED"}
      [] cur = "COMPLETED" -> {}
      [] cur = "REJECTED" -> {}
      [] OTHER -> {}

\* the statuses cancelOrder accepts
Cancellable == {"PENDING", "ACCEPTED", "IN_PROGRESS"}

\* a handler that counts the view of the gig it has loaded before it validates
ThrowAfterView(r, cause) ==
    /\ resp' = MkResp(r, 500, cause)
    /\ queued' = NoJob
    /\ gigs' = IF r.gigId \in DOMAIN gigs
               THEN [gigs EXCEPT ![r.gigId].views = @ + 1] ELSE gigs
    /\ UNCHANGED <<orders, history, profiles, notifications, pending>>

\* a handler that writes the audit row before it validates, outside the
\* transaction that would roll it back
ThrowAfterAudit(r, cause) ==
    /\ resp' = MkResp(r, 500, cause)
    /\ queued' = NoJob
    /\ history' = IF r.orderId \in 1..Len(orders)
                  THEN [history EXCEPT ![r.orderId] =
                          Append(@, [status |-> r.status, changedBy |-> r.user,
                                     basedOn |-> Len(history[r.orderId])])]
                  ELSE history
    /\ UNCHANGED <<orders, gigs, profiles, notifications, pending>>

\* a handler that hands the job to the queue inside its transaction, before
\* the step that throws and rolls the transaction back
ThrowAfterEnqueue(r, cause) ==
    /\ resp' = MkResp(r, 500, cause)
    /\ queued' = Job(r.orderId, r.status)
    /\ UNCHANGED <<db, pending>>

\* a throw inside the handler: an open transaction rolls back, the catch
\* block answers 500 with the message of the error
Throw(r, cause) ==
    /\ resp' = MkResp(r, 500, cause)
    /\ queued' = NoJob
    /\ UNCHANGED <<db, pending>>

\* --------------------------------------------------------------------- Init
\* the catalogue: gig "g1" can be ordered, gig "g2" is paused
InitGigs ==
    [g \in {"g1", "g2"} |->
       [status |-> IF g = "g1" THEN "ACTIVE" ELSE "PAUSED",
        freelancerId |-> "f1", deliveryTime |-> IF g = "g1" THEN 3 ELSE 0,
        pricing |-> Pricing,
        orderCount |-> 0, views |-> 0, lastOrderedAt |-> "NULL"]]

\* FreelancerProfile: activeOrders and orderCount default to 0
InitProfiles ==
    [f \in {"f1"} |->
       [userId |-> "u2", orderCount |-> 0, activeOrders |-> 0, lastActiveAt |-> "NULL"]]

Init ==
    /\ orders = <<>>
    /\ history = <<>>
    /\ gigs = InitGigs
    /\ profiles = InitProfiles
    /\ notifications = EmptyBag
    /\ queued = NoJob
    /\ inflight = EmptyBag
    /\ pending = EmptyBag
    /\ resp = NoResp

\* ------------------------------------------------------------- admission
RECURSIVE SumLen(_)
SumLen(h) == IF h = <<>> THEN 0 ELSE Len(Head(h)) + SumLen(Tail(h))

\* a request that passes its checks is taken up while a handler slot is free
\* and the audit rows written, plus those the suspended handlers are about
\* to write, stay within the bound; a request that fails them is answered
\* at once and needs neither
Admit(limit) ==
    /\ BagCardinality(inflight) < MaxInflight
    /\ SumLen(history) + BagCardinality(inflight) < limit

\* -------------------------------------------------------------- createOrder

\* createOrder up to the await of prisma.$transaction: the order number is
\* generated, the gig is loaded and the package and price are validated
CreateStartWith(clients, packages, expresses, limit) ==
    /\ \E user \in clients, gigId \in GigIdInputs :
         LET r == [Handler("createOrder", "tx", user) EXCEPT !.gigId = gigId]
         IN  IF gigId \notin DOMAIN gigs \/ gigs[gigId].status # "ACTIVE"
             THEN Throw(r, "GigNotFoundOrInactive") /\ UNCHANGED inflight
             ELSE \E pkg \in packages :
                  IF FindPackage(gigs[gigId].pricing, pkg) = {}
                  THEN Throw([r EXCEPT !.package = pkg], "InvalidPackage")
                       /\ UNCHANGED inflight
                  ELSE \E express \in expresses, date \in DateInputs,
                          suffix \in 1..MaxSuffix :
                       /\ Admit(limit)
                       /\ inflight' = Add([r EXCEPT
                             !.package = pkg, !.express = express,
                             !.orderNumber = OrderNumberOf(date, suffix)])
                       /\ resp' = NoResp /\ queued' = NoJob
                       /\ UNCHANGED <<db, pending>>

CreateStart == CreateStartWith(ClientInputs, PackageInputs, ExpressInputs, MaxRows)

\* the row tx.order.create inserts, with its nested statusHistory row
NewOrder(r) ==
    LET gig == gigs[r.gigId]
        basePrice == gig.pricing[CHOOSE i \in FindPackage(gig.pricing, r.package) : TRUE].price
    IN  [gigId |-> r.gigId, clientId |-> r.user, freelancerId |-> gig.freelancerId,
         package |-> r.package,
         totalPrice |-> TotalPrice(basePrice, r.express),
         priorityFee |-> PriorityFee(basePrice, r.express),
         isUrgent |-> r.express,
         status |-> "PENDING", orderNumber |-> r.orderNumber,
         deliveryDeadline |-> IF gig.deliveryTime # 0 THEN gig.deliveryTime ELSE 7,
         cancellationReason |-> "NULL", cancellationDate |-> "NULL",
         completedAt |-> "NULL"]

\* tx.gig.update(...).catch(console.error), not awaited
GigStatsUpdate(g) ==
    [gigs EXCEPT ![g].orderCount = @ + 1, ![g].views = @ + 1,
                 ![g].lastOrderedAt = "now"]

\* tx.freelancerProfile.update(...).catch(console.error), not awaited
ProfileStatsUpdate(f) ==
    [profiles EXCEPT ![f].orderCount = @ + 1, ![f].activeOrders = @ + 1,
                     ![f].lastActiveAt = "now"]

\* the transaction of createOrder and the synchronous code after it.  The two
\* counter updates are started inside the callback and not awaited: each
\* reaches the database before the commit, or after it and is then refused.
\* After the commit queueNotification hands the job to the queue, createMany
\* is started and the response is sent, with no await in between.
CreateTx(r) ==
    /\ r \in Suspended /\ r.op = "createOrder" /\ r.pc = "tx"
    /\ inflight' = Remove(r)
    /\ IF ~OrderNumberUnique(r.orderNumber)
       THEN Throw(r, "UniqueConstraint")
       ELSE \E gigApplied \in BOOLEAN, profileApplied \in BOOLEAN, ok \in BOOLEAN :
            LET id == Len(orders) + 1
                new == NewOrder(r)
            IN  /\ orders' = Append(orders, new)
                /\ history' = Append(history,
                       <<[status |-> "PENDING", changedBy |-> r.user, basedOn |-> 0]>>)
                /\ gigs' = IF gigApplied THEN GigStatsUpdate(r.gigId) ELSE gigs
                /\ profiles' = IF profileApplied
                               THEN ProfileStatsUpdate(new.freelancerId) ELSE profiles
                /\ queued' = IF ok THEN Job(id, "NONE") ELSE NoJob
                /\ pending' = pending (+) SetToBag({[task |-> "createMany", orderId |-> id]})
                /\ resp' = MkResp(r, 201, "OK")
                /\ UNCHANGED notifications

\* prisma.notification.createMany(...).catch(...) of createOrder settles
CreateNotify(t) ==
    /\ t \in BagToSet(pending) /\ t.task = "createMany"
    /\ pending' = pending (-) SetToBag({t})
    /\ \E ok \in BOOLEAN :
         LET o == orders[t.orderId]
         IN  notifications' =
               IF ok
               THEN notifications (+) SetToBag({
                      [userId |-> o.clientId, entityId |-> t.orderId, kind |-> "placed"],
                      [userId |-> profiles[o.freelancerId].userId,
                       entityId |-> t.orderId, kind |-> "new"]})
               ELSE notifications
    /\ resp' = NoResp /\ queued' = NoJob
    /\ UNCHANGED <<orders, history, gigs, profiles, inflight>>

\* -------------------------------------------------------- updateOrderStatus
\* an update that writes the status alone and none of the derived fields
StatusUpdateBare(order, status, reason) == [order EXCEPT !.status = status]

\* an update that also recomputes the commercial terms: a rejected order is
\* repriced to nothing and its deadline is cleared
StatusUpdateRepriced(order, status, reason) ==
    [order EXCEPT
       !.status = status,
       !.totalPrice = IF status = "REJECTED" THEN 0 ELSE @,
       !.deliveryDeadline = IF status = "REJECTED" THEN 0 ELSE @,
       !.cancellationReason =
           IF status = "REJECTED"
           THEN (IF reason # "NONE" THEN reason ELSE "Freelancer rejected the order.")
           ELSE @,
       !.cancellationDate = IF status = "REJECTED" THEN "now" ELSE @,
       !.completedAt = IF status = "COMPLETED" THEN "now" ELSE @]

\* updateData and the nested statusHistory row of tx.order.update
StatusUpdate(order, status, reason) ==
    [order EXCEPT
       !.status = status,
       !.cancellationReason =
           IF status = "REJECTED"
           THEN (IF reason # "NONE" THEN reason ELSE "Freelancer rejected the order.")
           ELSE @,
       !.cancellationDate = IF status = "REJECTED" THEN "now" ELSE @,
       !.completedAt = IF status = "COMPLETED" THEN "now" ELSE @]

\* a transition check that keeps the edge from PENDING to CURRENT for the
\* provider
UpdValidateByRole(limit, r, status, reason) ==
    LET order == orders[r.orderId]
        q == [r EXCEPT !.status = status, !.reason = reason,
                       !.readStatus = order.status,
                       !.readVer = Len(history[r.orderId])]
    IN  /\ (status # "REJECTED" => reason = "NONE")
        /\ IF \/ status = "NONE" \/ status \notin ValidTransitions(order.status)
              \/ (status = "CURRENT" /\ order.clientId = r.user)
           THEN Throw(q, "InvalidTransition") /\ UNCHANGED inflight
           ELSE /\ Admit(limit)
                /\ inflight' = Add(q)
                /\ resp' = NoResp /\ queued' = NoJob
                /\ UNCHANGED <<db, pending>>

\* the transition check of updateOrderStatus for handler r, which has loaded
\* its order and passed the party check, and the requested status
UpdValidate(limit, r, status, reason) ==
    LET order == orders[r.orderId]
        q == [r EXCEPT !.status = status, !.reason = reason,
                       !.readStatus = order.status,
                       !.readVer = Len(history[r.orderId])]
    IN  /\ (status # "REJECTED" => reason = "NONE")
        /\ IF status = "NONE" \/ status \notin ValidTransitions(order.status)
           THEN Throw(q, "InvalidTransition") /\ UNCHANGED inflight
           ELSE /\ Admit(limit)
                /\ inflight' = Add(q)
                /\ resp' = NoResp /\ queued' = NoJob
                /\ UNCHANGED <<db, pending>>

\* the transaction of updateOrderStatus up to the await of tx.order.update:
\* findUnique, the party check and the transition check
UpdRead(limit, user, orderId) ==
    LET r == [Handler("updateOrderStatus", "write", user) EXCEPT !.orderId = orderId]
    IN  IF orderId > Len(orders)
        THEN Throw(r, "NotFound") /\ UNCHANGED inflight
        ELSE
        LET order == orders[orderId]
            isClient == order.clientId = user
            isFreelancer == FreelancerUserOf(order, TRUE) = user
        IN  IF ~isClient /\ ~isFreelancer
            THEN Throw(r, "Forbidden") /\ UNCHANGED inflight
            ELSE \E status \in StatusInputs, reason \in ReasonInputs :
                 UpdValidate(limit, r, status, reason)

UpdStart(limit) ==
    \E user \in Users, orderId \in 1..(Len(orders) + 1) : UpdRead(limit, user, orderId)

\* a write that also releases the provider's capacity when it closes the order
UpdWriteWithDelta(r) ==
    /\ r \in Suspended /\ r.op = "updateOrderStatus" /\ r.pc = "write"
    /\ inflight' = Remove(r)
    /\ \E notified \in BOOLEAN, ok \in BOOLEAN, swallowed \in BOOLEAN :
         IF ~notified
         THEN Throw(r, "NotificationError")
         ELSE LET order == orders[r.orderId]
                  isClient == order.clientId = r.user
              IN  /\ orders' = [orders EXCEPT ![r.orderId] =
                                   StatusUpdate(@, r.status, r.reason)]
                  /\ history' = [history EXCEPT ![r.orderId] =
                                   StatusHistoryCreate(@,
                                       [status |-> r.status, changedBy |-> r.user,
                                        basedOn |-> r.readVer])]
                  /\ notifications' = notifications (+) SetToBag({
                        [userId |-> IF isClient THEN FreelancerUserOf(order, TRUE)
                                    ELSE order.clientId,
                         entityId |-> r.orderId, kind |-> r.status]})
                  /\ queued' = IF ok THEN Job(r.orderId, r.status) ELSE NoJob
                  /\ resp' = IF ok \/ swallowed THEN MkResp(r, 200, "OK")
                             ELSE MkResp(r, 500, "QueueError")
                  /\ profiles' = IF r.status \in {"COMPLETED", "REJECTED"}
                                 THEN [profiles EXCEPT
                                         ![order.freelancerId].activeOrders = @ - 1]
                                 ELSE profiles
                  /\ UNCHANGED <<gigs, pending>>

\* tx.order.update, tx.notification.create and the commit, then
\* await queueNotification({...}) and the response.  The update is keyed by
\* id alone: it applies to whatever the row holds by now.  After the commit
\* the handler touches the database no more, so its last await is no place
\* where another request can change what it does.
\* notificationService.js holds two definitions of queueNotification: the
\* first lets a failure of notificationQueue.add reach the handler, whose
\* catch block answers 500; the second logs it and returns.
UpdWrite(r) ==
    /\ r \in Suspended /\ r.op = "updateOrderStatus" /\ r.pc = "write"
    /\ inflight' = Remove(r)
    /\ \E notified \in BOOLEAN, ok \in BOOLEAN, swallowed \in BOOLEAN :
         IF ~notified
         THEN Throw(r, "NotificationError")
         ELSE LET order == orders[r.orderId]
                  isClient == order.clientId = r.user
              IN  /\ orders' = [orders EXCEPT ![r.orderId] =
                                   StatusUpdate(@, r.status, r.reason)]
                  /\ history' = [history EXCEPT ![r.orderId] =
                                   StatusHistoryCreate(@,
                                       [status |-> r.status, changedBy |-> r.user,
                                        basedOn |-> r.readVer])]
                  /\ notifications' = notifications (+) SetToBag({
                        [userId |-> IF isClient THEN FreelancerUserOf(order, TRUE)
                                    ELSE order.clientId,
                         entityId |-> r.orderId, kind |-> r.status]})
                  /\ queued' = IF ok THEN Job(r.orderId, r.status) ELSE NoJob
                  /\ resp' = IF ok \/ swallowed THEN MkResp(r, 200, "OK")
                             ELSE MkResp(r, 500, "QueueError")
                  /\ UNCHANGED <<gigs, profiles, pending>>

\* a cancel that loads the provider's user, finds CANCELLED in the enum and
\* commits
CancelCommitted(user, orderId, reason) ==
    /\ UNCHANGED inflight
    /\ LET r == [Handler("cancelOrder", "write", user) EXCEPT
                    !.orderId = orderId, !.status = "CANCELLED", !.reason = reason]
       IN  IF orderId > Len(orders)
           THEN Throw(r, "NotFound")
           ELSE
           LET order == orders[orderId]
           IN  IF order.clientId # user /\ FreelancerUserOf(order, TRUE) # user
               THEN Throw(r, "Forbidden")
               ELSE IF order.status \notin Cancellable
               THEN Throw(r, "InvalidStatus")
               ELSE
               /\ orders' = [orders EXCEPT ![orderId] =
                     [@ EXCEPT !.status = "CANCELLED",
                               !.cancellationReason =
                                   IF reason # "NONE" THEN reason ELSE "Not specified",
                               !.cancellationDate = "now"]]
               /\ history' = [history EXCEPT ![orderId] =
                     StatusHistoryCreate(@, [status |-> "CANCELLED", changedBy |-> user,
                                             basedOn |-> Len(history[orderId])])]
               /\ profiles' = [profiles EXCEPT ![order.freelancerId].activeOrders = @ - 1]
               /\ notifications' = notifications (+) SetToBag({
                     [userId |-> IF order.clientId = user
                                 THEN FreelancerUserOf(order, TRUE) ELSE order.clientId,
                      entityId |-> orderId, kind |-> "CANCELLED"]})
               /\ resp' = MkResp(r, 200, "OK") /\ queued' = Job(orderId, "CANCELLED")
               /\ UNCHANGED <<gigs, pending>>

\* -------------------------------------------------------------- cancelOrder
\* cancelOrder, the whole handler.  The order is loaded with
\* include: { client: true, freelancer: true }, so order.freelancer.user is
\* undefined and reading its id throws: in the party check for a user who is
\* not the client, in the notification for the client.  Before that,
\* tx.order.update is refused because "CANCELLED" is not a value of the enum.
\* No path commits, so the await between the read and the write is no place
\* where another request can change the outcome.
Cancel(user, orderId, reason) ==
    /\ UNCHANGED inflight
    /\ LET r == [Handler("cancelOrder", "write", user) EXCEPT
                    !.orderId = orderId, !.status = "CANCELLED", !.reason = reason]
       IN  IF orderId > Len(orders)
           THEN Throw(r, "NotFound")
           ELSE
           LET order == orders[orderId]
           IN  IF order.clientId # user /\ FreelancerUserOf(order, FALSE) = "UNDEFINED"
               THEN Throw(r, "TypeError")
               ELSE IF order.clientId # user /\ FreelancerUserOf(order, FALSE) # user
               THEN Throw(r, "Forbidden")
               ELSE IF order.status \notin Cancellable
               THEN Throw(r, "InvalidStatus")
               ELSE IF "CANCELLED" \notin OrderStatus
               THEN Throw(r, "InvalidEnumValue")
               ELSE IF order.clientId = user /\ FreelancerUserOf(order, FALSE) = "UNDEFINED"
               THEN Throw(r, "TypeError")
               ELSE
               /\ orders' = [orders EXCEPT ![orderId] =
                     [@ EXCEPT !.status = "CANCELLED",
                               !.cancellationReason =
                                   IF reason # "NONE" THEN reason ELSE "Not specified",
                               !.cancellationDate = "now"]]
               /\ history' = [history EXCEPT ![orderId] =
                     StatusHistoryCreate(@, [status |-> "CANCELLED", changedBy |-> user,
                                             basedOn |-> Len(history[orderId])])]
               /\ profiles' = [profiles EXCEPT ![order.freelancerId].activeOrders = @ - 1]
               /\ notifications' = notifications (+) SetToBag({
                     [userId |-> IF order.clientId = user
                                 THEN FreelancerUserOf(order, FALSE) ELSE order.clientId,
                      entityId |-> orderId, kind |-> "CANCELLED"]})
               /\ resp' = MkResp(r, 500, "TypeError") /\ queued' = NoJob
               /\ UNCHANGED <<gigs, pending>>

CancelOrder ==
    \E user \in Users, orderId \in 1..(Len(orders) + 1), reason \in CancelReasonInputs :
        Cancel(user, orderId, reason)

\* --------------------------------------------------------------------- Next
Next ==
    \/ CreateStart
    \/ \E r \in Suspended : CreateTx(r)
    \/ \E t \in BagToSet(pending) : CreateNotify(t)
    \/ UpdStart(MaxRows)
    \/ \E r \in Suspended : UpdWrite(r)
    \/ CancelOrder

Spec == Init /\ [][Next]_vars

\* ------------------------------------------------------------ SpecLifecycle
\* One order, as createOrder of client "u1" for gig "g1" leaves it once both
\* counter updates have landed and its createMany has settled, and then
\* status updates and cancellations only.
InitLifecycle ==
    LET r == [Handler("createOrder", "tx", "u1") EXCEPT
                 !.gigId = "g1", !.package = "Basic",
                 !.orderNumber = OrderNumberOf("20250713", 1)]
    IN  /\ gigs = [InitGigs EXCEPT !["g1"].orderCount = 1, !["g1"].views = 1,
                                   !["g1"].lastOrderedAt = "now"]
        /\ profiles = [InitProfiles EXCEPT !["f1"].orderCount = 1,
                                           !["f1"].activeOrders = 1,
                                           !["f1"].lastActiveAt = "now"]
        /\ orders = <<NewOrder(r)>>
        /\ history = <<<<[status |-> "PENDING", changedBy |-> "u1", basedOn |-> 0]>>>>
        /\ notifications = SetToBag({
               [userId |-> "u1", entityId |-> 1, kind |-> "placed"],
               [userId |-> "u2", entityId |-> 1, kind |-> "new"]})
        /\ queued = NoJob
        /\ inflight = EmptyBag
        /\ pending = EmptyBag
        /\ resp = NoResp

NextLifecycle ==
    \/ UpdStart(MaxDepth)
    \/ \E r \in Suspended : UpdWrite(r)
    \/ CancelOrder

SpecLifecycle == InitLifecycle /\ [][NextLifecycle]_vars

\* --------------------------------------------------------------- SpecOwnGig
\* the three handlers when the orders are placed by the gig's own provider
NextOwnGig ==
    \/ CreateStartWith(OwnGigClientInputs, PackageInputs, ExpressInputs, MaxRows)
    \/ \E r \in Suspended : CreateTx(r)
    \/ \E t \in BagToSet(pending) : CreateNotify(t)
    \/ UpdStart(MaxRows)
    \/ \E r \in Suspended : UpdWrite(r)
    \/ CancelOrder

SpecOwnGig == Init /\ [][NextOwnGig]_vars

\* -------------------------------------------------------------- SpecPricing
\* createOrder alone, for a gig whose package "Basic" has any of the base
\* prices, with and without expressDelivery
InitPricing ==
    /\ \E p \in PriceInputs :
         gigs = [InitGigs EXCEPT !["g1"].pricing = <<[name |-> "Basic", price |-> p]>>]
    /\ orders = <<>>
    /\ history = <<>>
    /\ profiles = InitProfiles
    /\ notifications = EmptyBag
    /\ queued = NoJob
    /\ inflight = EmptyBag
    /\ pending = EmptyBag
    /\ resp = NoResp

NextPricing ==
    \/ CreateStartWith(ClientInputs, PackageInputs, PricedExpressInputs, MaxPriced)
    \/ \E r \in Suspended : CreateTx(r)
    \/ \E t \in BagToSet(pending) : CreateNotify(t)

SpecPricing == InitPricing /\ [][NextPricing]_vars

\* ------------------------------------------------------------------- claims
Orders == 1..Len(orders)

\* the statuses that count against a provider's capacity; "CURRENT" is the
\* name the later enum gives to an accepted order that is being worked on
ActiveSet == {"ACCEPTED", "IN_PROGRESS", "DELIVERED", "DISPUTED", "CURRENT"}

\* the transition table of the specification, section 4.1
SpecTable(s) ==
    CASE s = "PENDING" -> {"ACCEPTED", "REJECTED"}
      [] s = "ACCEPTED" -> {"IN_PROGRESS", "CANCELLED"}
      [] s = "IN_PROGRESS" -> {"DELIVERED", "CANCELLED"}
      [] s = "DELIVERED" -> {"COMPLETED", "DISPUTED"}
      [] s = "DISPUTED" -> {"COMPLETED", "CANCELLED"}
      [] OTHER -> {}

\* C1: every provider profile's activeOrders equals the number of that
\* provider's orders whose status is in the active set.
C1_CounterConsistency ==
    \A f \in DOMAIN profiles :
        profiles[f].activeOrders =
            Cardinality({o \in Orders : orders[o].freelancerId = f
                                        /\ orders[o].status \in ActiveSet})

\* C2: the audit rows of every order, in append order, start with PENDING
\* and every consecutive pair is an edge of the specification's table.
C2_AuditPath ==
    \A o \in Orders :
        /\ history[o][1].status = "PENDING"
        /\ \A i \in 1..(Len(history[o]) - 1) :
              history[o][i + 1].status \in SpecTable(history[o][i].status)

\* C3: of two transition requests that both read the same PENDING order, one
\* accepting and one rejecting, at most one commits a status change and an
\* audit row.
C3_SingleWinner ==
    \A o \in Orders :
        ~ \E i, j \in 2..Len(history[o]) :
              /\ history[o][i].basedOn = 1 /\ history[o][j].basedOn = 1
              /\ history[o][i].status = "CURRENT" /\ history[o][j].status = "REJECTED"

\* C4: the order row, its first audit row, the gig's orderCount and
\* lastOrderedAt and the provider's orderCount are written together or not at
\* all: the lifetime counters agree with the orders stored.
C4_CreateAtomic ==
    /\ \A g \in DOMAIN gigs :
         LET n == Cardinality({o \in Orders : orders[o].gigId = g})
         IN  gigs[g].orderCount = n /\ (n > 0 => gigs[g].lastOrderedAt = "now")
    /\ \A f \in DOMAIN profiles :
         profiles[f].orderCount = Cardinality({o \in Orders : orders[o].freelancerId = f})
    /\ \A o \in Orders : Len(history[o]) >= 1

\* C5: a request repeated by the same user for the same order and status,
\* read after the first one committed, commits nothing: no second audit row
\* with that status and user is written by a request that saw the first.
C5_RetryRejected ==
    \A o \in Orders :
        ~ \E i, j \in 2..Len(history[o]) :
              /\ i < j
              /\ history[o][i].status = history[o][j].status
              /\ history[o][i].changedBy = history[o][j].changedBy
              /\ history[o][j].basedOn >= i

\* C6: a status change is committed only along an edge of the specification's
\* table: for every audit row after the first, the pair (status the writer
\* read, status it wrote) is in the table, whoever the writer is.
C6_OnlySpecEdges ==
    \A o \in Orders :
        \A i \in 2..Len(history[o]) :
            history[o][i].status \in SpecTable(history[o][history[o][i].basedOn].status)

\* C7: no two stored orders have the same orderNumber.
C7_UniqueOrderNumbers ==
    \A a, b \in Orders : a # b => orders[a].orderNumber # orders[b].orderNumber

\* a createOrder was refused for a number an earlier order holds
C7_Witness ==
    /\ Len(orders) >= 1
    /\ resp = [op |-> "createOrder", http |-> 500, cause |-> "UniqueConstraint"]
    /\ \A a, b \in Orders : a # b => orders[a].orderNumber # orders[b].orderNumber

\* C8: a createOrder whose gig and package are valid ends with the order
\* created, also when its number collides with a stored one: it never
\* answers with the failure of the unique index.
C8_CollisionRetried ==
    ~ (resp.op = "createOrder" /\ resp.http = 500
       /\ resp.cause \notin {"GigNotFoundOrInactive", "InvalidPackage"})

\* C9: a createOrder that fails validation (gig absent or not ACTIVE, package
\* not in the price list) leaves orders, audit rows, gig and provider
\* counters, notifications and the queue as they were.
C9_FailedCreateWritesNothing ==
    [][(resp'.op = "createOrder"
        /\ resp'.cause \in {"GigNotFoundOrInactive", "InvalidPackage"})
       => (UNCHANGED <<orders, history, gigs, profiles, notifications>>
           /\ queued' = NoJob)]_vars

\* a createOrder failed validation while an order and its counters were stored
C9_Witness ==
    /\ resp.op = "createOrder"
    /\ resp.cause \in {"GigNotFoundOrInactive", "InvalidPackage"}
    /\ Len(orders) >= 1
    /\ gigs["g1"].orderCount >= 1

\* C10: an updateOrderStatus or cancelOrder that fails with NotFound,
\* Forbidden or an invalid transition or status leaves the order row, the
\* audit rows, the provider counters, notifications and the queue as they were.
C10_FailedTransitionWritesNothing ==
    [][(resp'.op \in {"updateOrderStatus", "cancelOrder"}
        /\ resp'.cause \in {"NotFound", "Forbidden", "InvalidTransition", "InvalidStatus"})
       => (UNCHANGED <<orders, history, gigs, profiles, notifications>>
           /\ queued' = NoJob)]_vars

\* an updateOrderStatus was refused as an invalid transition on an order that
\* had already changed status
C10_Witness ==
    /\ resp = [op |-> "updateOrderStatus", http |-> 500, cause |-> "InvalidTransition"]
    /\ \E o \in Orders : Len(history[o]) >= 2

\* C11: a successful createOrder leaves every provider's activeOrders as it
\* was and gives the new order exactly one audit row, with status PENDING.
C11_CreateLeavesCapacity ==
    [][(resp'.op = "createOrder" /\ resp'.http = 201)
       => (/\ Len(orders') = Len(orders) + 1
           /\ \A f \in DOMAIN profiles :
                 profiles'[f].activeOrders = profiles[f].activeOrders
           /\ Len(history'[Len(orders')]) = 1
           /\ history'[Len(orders')][1].status = "PENDING")]_vars

\* C12: a committed transition from PENDING into the active set adds exactly
\* 1 to the provider's activeOrders in the same step and leaves the order
\* with two audit rows; a committed transition out of the active set takes
\* exactly 1 away.
C12_ActiveSetDelta ==
    [][\A o \in Orders :
         LET f == orders[o].freelancerId
             was == orders[o].status
             now == orders'[o].status
         IN  /\ (was = "PENDING" /\ now \in ActiveSet)
                  => (/\ profiles'[f].activeOrders = profiles[f].activeOrders + 1
                      /\ Len(history'[o]) = 2)
             /\ (was \in ActiveSet /\ now \notin ActiveSet)
                  => profiles'[f].activeOrders = profiles[f].activeOrders - 1]_vars

\* the terminal statuses of the specification
Terminal == {"COMPLETED", "CANCELLED", "REJECTED"}

\* the users who are party to order o: its buyer and the user owning its
\* provider profile
Parties(o) == {orders[o].clientId, profiles[orders[o].freelancerId].userId}

\* C13: a cancelOrder with a reason, by a party of an order that is in no
\* terminal status, succeeds: it commits status CANCELLED, the reason and a
\* cancellation date, appends one CANCELLED audit row and, if the order was
\* active, takes 1 from activeOrders.
C13_CancelSucceeds ==
    [][\A user \in Users, o \in Orders :
         (/\ user \in Parties(o)
          /\ orders[o].status \notin Terminal
          /\ Cancel(user, o, "client requested"))
         => (/\ resp' = [op |-> "cancelOrder", http |-> 200, cause |-> "OK"]
             /\ orders'[o].status = "CANCELLED"
             /\ orders'[o].cancellationReason = "client requested"
             /\ orders'[o].cancellationDate = "now"
             /\ history'[o] = Append(history[o], [status |-> "CANCELLED",
                                  changedBy |-> user, basedOn |-> Len(history[o])])
             /\ profiles'[orders[o].freelancerId].activeOrders =
                  profiles[orders[o].freelancerId].activeOrders
                  - (IF orders[o].status \in ActiveSet THEN 1 ELSE 0))]_vars

\* C14: once the status of an order is COMPLETED, CANCELLED or REJECTED, no
\* step changes its status or appends an audit row to it.
C14_TerminalAbsorbing ==
    [][\A o \in Orders :
         orders[o].status \in Terminal
         => (orders'[o].status = orders[o].status /\ history'[o] = history[o])]_vars

\* C15: when a step commits an order mutation and its enqueue fails (no job
\* reaches the queue), the caller still receives a success response.
C15_EnqueueFailureNonFatal ==
    [][(history' # history /\ queued' = NoJob) => resp'.http \in {200, 201}]_vars

\* C16: no operation fails because the notification row could not be
\* written: the order mutation commits and the response reports success.
C16_NotificationFailureNonFatal ==
    ~ (resp.http = 500 /\ resp.cause = "NotificationError")

\* the notification rows stored for order o with the given kind
Notified(o, kind) ==
    {n \in BagToSet(notifications) : n.entityId = o /\ n.kind = kind}

\* C17: commit, then notification record, then enqueue: whenever a step has
\* put a job on the queue, the notification record of the same event is
\* already stored.
C17_NotifyBeforeEnqueue ==
    queued # NoJob
    => IF queued.type = "ORDER_CREATED"
       THEN Notified(queued.orderId, "placed") # {} /\ Notified(queued.orderId, "new") # {}
       ELSE Notified(queued.orderId, queued.status) # {}

\* C18: when createOrder answers success the notification rows of the buyer
\* and of the provider are stored; when updateOrderStatus answers success
\* some order has the notification row of its latest transition.
C18_NotificationVisible ==
    /\ (resp.op = "createOrder" /\ resp.http = 201)
         => (Notified(Len(orders), "placed") # {} /\ Notified(Len(orders), "new") # {})
    /\ (resp.op = "updateOrderStatus" /\ resp.http = 200)
         => \E o \in Orders : Notified(o, orders[o].status) # {}

\* C19: a transition or cancel request by a user who is no party of the
\* order fails with Forbidden; a request by the buyer or by the provider's
\* user gets past the authorization step: it is not refused as Forbidden and
\* does not die reading the provider's user.
C19_PartyAuthorization ==
    [][\A user \in Users, o \in Orders :
         /\ UpdRead(MaxRows, user, o)
              => IF user \in Parties(o) THEN resp'.cause # "Forbidden"
                 ELSE resp'.cause = "Forbidden"
         /\ \A reason \in CancelReasonInputs :
              Cancel(user, o, reason)
              => IF user \in Parties(o) THEN resp'.cause \notin {"Forbidden", "TypeError"}
                 ELSE resp'.cause = "Forbidden"]_vars

\* the step committed a transition: updateOrderStatus answers after its
\* commit with success or with the failure of the enqueue, cancelOrder with
\* success
CommittedTransition ==
    \/ resp'.op = "updateOrderStatus" /\ resp'.cause \in {"OK", "QueueError"}
    \/ resp'.op = "cancelOrder" /\ resp'.cause = "OK"

\* C20: the ledger is append-only and counts the commits: a step that
\* commits a transition appends exactly one row to exactly one order, a step
\* that creates an order starts its ledger with exactly one row, every other
\* step leaves every ledger as it is, and no step changes or removes a row.
C20_AppendOnlyLedger ==
    [][/\ Len(orders') >= Len(orders)
       /\ Len(history') = Len(orders')
       /\ \A o \in (1..Len(orders')) \ Orders : Len(history'[o]) = 1
       /\ Len(orders') > Len(orders)
            <=> (resp'.op = "createOrder" /\ resp'.http = 201)
       /\ \A o \in Orders :
            \/ history'[o] = history[o]
            \/ /\ Len(history'[o]) = Len(history[o]) + 1
               /\ SubSeq(history'[o], 1, Len(history[o])) = history[o]
       /\ IF CommittedTransition
          THEN Cardinality({o \in Orders : history'[o] # history[o]}) = 1
          ELSE \A o \in Orders : history'[o] = history[o]]_vars

\* an updateOrderStatus has committed and answered: its order has the row of
\* its creation and the row of the transition
C20_Witness ==
    /\ resp = [op |-> "updateOrderStatus", http |-> 200, cause |-> "OK"]
    /\ \E o \in Orders : Len(history[o]) = 2 /\ orders[o].status = history[o][2].status

\* C21: no step changes the orderNumber or the totalPrice of a stored order,
\* and no step moves its deliveryDeadline to an earlier value.
C21_ImmutableTerms ==
    [][\A o \in Orders :
         /\ orders'[o].orderNumber = orders[o].orderNumber
         /\ orders'[o].totalPrice = orders[o].totalPrice
         /\ orders'[o].deliveryDeadline >= orders[o].deliveryDeadline]_vars

\* an order was rejected by a status update and still carries the terms it
\* was created with
C21_Witness ==
    \E o \in Orders :
        /\ orders[o].status = "REJECTED" /\ Len(history[o]) >= 2
        /\ orders[o].orderNumber = OrderNumberOf("20250713", 1)
        /\ orders[o].totalPrice = TotalPrice(100, FALSE)

\* the base price of the package an order was placed for
BasePriceOf(o) ==
    LET pricingData == gigs[orders[o].gigId].pricing
    IN  pricingData[CHOOSE i \in 1..Len(pricingData) :
                       pricingData[i].name = orders[o].package].price

\* C22: for a base price p, an order with expressDelivery stores totalPrice
\* 1.5 * p and priorityFee 0.5 * p, any other order stores totalPrice p and
\* no priority fee (amounts in halves: 3 * p and p, 2 * p and none).
C22_PriceComputation ==
    \A o \in Orders :
        LET p == BasePriceOf(o)
        IN  IF orders[o].isUrgent
            THEN orders[o].totalPrice = 3 * p /\ orders[o].priorityFee = <<p>>
            ELSE orders[o].totalPrice = 2 * p /\ orders[o].priorityFee = <<>>

\* an express order for base price 100 is stored with total 150 and fee 50,
\* or one for an odd base price with a total that is not a whole number
C22_Witness ==
    \E o \in Orders :
        /\ orders[o].isUrgent
        /\ \/ BasePriceOf(o) = 100 /\ orders[o].totalPrice = 300
                                   /\ orders[o].priorityFee = <<100>>
           \/ BasePriceOf(o) = 3 /\ orders[o].totalPrice = 9

\* C23: an order whose status is COMPLETED has completedAt set, and an order
\* whose status is CANCELLED or REJECTED has a cancellation reason and a
\* cancellation date; they are set in the step that sets the status.
C23_DerivedTimestamps ==
    \A o \in Orders :
        /\ orders[o].status = "COMPLETED" => orders[o].completedAt # "NULL"
        /\ orders[o].status \in {"CANCELLED", "REJECTED"}
             => (/\ orders[o].cancellationReason # "NULL"
                 /\ orders[o].cancellationDate # "NULL")

\* one status update has completed an order: the completion date is there and
\* the order was never rejected
C23_Witness ==
    \E o \in Orders :
        /\ orders[o].status = "COMPLETED" /\ orders[o].completedAt = "now"
        /\ orders[o].cancellationDate = "NULL"

\* C24: a step that commits a transition or a cancel of order o creates
\* exactly one notification, addressed to the other party of o - the
\* provider's user when the buyer acted, the buyer when the provider acted -
\* and not to the user who acted.
C24_CounterPartyNotified ==
    [][\A o \in Orders :
         Len(history'[o]) = Len(history[o]) + 1
         => LET actor == history'[o][Len(history'[o])].changedBy
                created == notifications' (-) notifications
                provider == profiles[orders[o].freelancerId].userId
            IN  /\ BagCardinality(created) = 1
                /\ \A n \in BagToSet(created) :
                     /\ n.entityId = o
                     /\ n.userId # actor
                     /\ n.userId = IF actor = orders[o].clientId
                                   THEN provider ELSE orders[o].clientId]_vars

\* C25: a job is on the queue only by a step that committed the transaction
\* of its operation: the step answers success, the order of the job is
\* stored and its latest audit row is the one the job announces; a step that
\* fails or rolls back enqueues nothing.
C25_EnqueueAfterCommit ==
    queued # NoJob
    => /\ queued.orderId \in Orders
       /\ resp.http \in {200, 201}
       /\ LET rows == history[queued.orderId]
          IN  IF queued.type = "ORDER_CREATED"
              THEN /\ resp.op = "createOrder" /\ queued.orderId = Len(orders)
                   /\ Len(rows) = 1 /\ rows[1].status = "PENDING"
              ELSE /\ resp.op \in {"updateOrderStatus", "cancelOrder"}
                   /\ Len(rows) >= 2 /\ rows[Len(rows)].status = queued.status
                   /\ orders[queued.orderId].status = queued.status

\* the job of a committed status update is on the queue
C25_Witness ==
    /\ queued.type = "ORDER_STATUS_UPDATE"
    /\ queued.orderId \in Orders
    /\ orders[queued.orderId].status = queued.status

\* the edges of the table the handler implements, as (current, requested)
ImplementedEdges ==
    {<<"PENDING", "CURRENT">>, <<"PENDING", "REJECTED">>,
     <<"CURRENT", "COMPLETED">>, <<"CURRENT", "REJECTED">>}

\* C26: a status update by a party of an order whose status it reads as cur
\* goes on to its write exactly when (cur, requested) is PENDING->CURRENT,
\* PENDING->REJECTED, CURRENT->COMPLETED or CURRENT->REJECTED; for every
\* other pair, a missing status and the same status included, it answers with
\* the error of the transition check and changes nothing.  A step that changes the status of an order or its
\* ledger stores the requested status, and the pair of the status its call
\* read and the status it stores is one of the four.
C26_ImplementedTable ==
    [][/\ \A o \in Orders : \A user \in Parties(o) :
            \A status \in StatusInputs, reason \in ReasonInputs :
               UpdValidate(MaxDepth,
                           [Handler("updateOrderStatus", "write", user)
                               EXCEPT !.orderId = o], status, reason)
               => IF <<orders[o].status, status>> \in ImplementedEdges
                  THEN resp' = NoResp /\ inflight' # inflight /\ db' = db
                  ELSE /\ resp'.http = 500 /\ resp'.cause = "InvalidTransition"
                       /\ db' = db /\ inflight' = inflight /\ queued' = NoJob
       /\ \A o \in Orders :
            (history'[o] # history[o] \/ orders'[o].status # orders[o].status)
            => LET row == history'[o][Len(history'[o])]
               IN  /\ Len(history'[o]) = Len(history[o]) + 1
                   /\ orders'[o].status = row.status
                   /\ row.basedOn \in 1..Len(history[o])
                   /\ <<history[o][row.basedOn].status, row.status>>
                        \in ImplementedEdges]_vars

\* an order went PENDING, CURRENT, COMPLETED by two status updates, and a
\* further request on it was refused
C26_Witness ==
    /\ resp = [op |-> "updateOrderStatus", http |-> 500, cause |-> "InvalidTransition"]
    /\ \E o \in Orders :
         /\ orders[o].status = "COMPLETED"
         /\ [i \in 1..Len(history[o]) |-> history[o][i].status]
              = <<"PENDING", "CURRENT", "COMPLETED">>

\* C27: in every reachable state the status stored on an order is the status
\* of the audit row appended to it last.
C27_StatusIsLastRow ==
    /\ Len(history) = Len(orders)
    /\ \A o \in Orders :
         /\ Len(history[o]) >= 1
         /\ orders[o].status = history[o][Len(history[o])].status

\* two status updates read the same PENDING order before either wrote; the
\* rejection committed first, the acceptance second and its status stands
C27_Witness ==
    \E o \in Orders :
        /\ Len(history[o]) = 3
        /\ history[o][2].status = "REJECTED" /\ history[o][3].status = "CURRENT"
        /\ history[o][3].basedOn = 1
        /\ orders[o].status = "CURRENT"

\* what a committed status update leaves on an order, whoever requested it
AcceptedOutcome(order, status) ==
    CASE status = "REJECTED" ->
           [order EXCEPT !.status = "REJECTED",
                         !.cancellationReason = "Freelancer rejected the order.",
                         !.cancellationDate = "now"]
      [] status = "COMPLETED" ->
           [order EXCEPT !.status = "COMPLETED", !.completedAt = "now"]
      [] OTHER -> [order EXCEPT !.status = status]

\* C28: in every state, for every order and requested status, the transition
\* check refuses the buyer's request exactly when it refuses the provider's
\* and lets the buyer's request go on exactly when it lets the provider's go
\* on; and the commit of an accepted request leaves the same status and
\* derived fields on the order whoever of the two requested it.
C28_RoleIndependentEdges ==
    /\ \A o \in Orders : \A u1 \in Parties(o), u2 \in Parties(o) :
         \A status \in StatusInputs, reason \in ReasonInputs :
            /\ (ENABLED (/\ UpdValidate(MaxDepth,
                               [Handler("updateOrderStatus", "write", u1)
                                   EXCEPT !.orderId = o], status, reason)
                         /\ resp'.cause = "InvalidTransition"))
               <=> (ENABLED (/\ UpdValidate(MaxDepth,
                                   [Handler("updateOrderStatus", "write", u2)
                                       EXCEPT !.orderId = o], status, reason)
                             /\ resp'.cause = "InvalidTransition"))
            /\ (ENABLED (/\ UpdValidate(MaxDepth,
                               [Handler("updateOrderStatus", "write", u1)
                                   EXCEPT !.orderId = o], status, reason)
                         /\ resp' = NoResp))
               <=> (ENABLED (/\ UpdValidate(MaxDepth,
                                   [Handler("updateOrderStatus", "write", u2)
                                       EXCEPT !.orderId = o], status, reason)
                             /\ resp' = NoResp))
    /\ \A r \in Suspended :
         r.op = "updateOrderStatus"
         => ~ ENABLED (/\ UpdWrite(r)
                       /\ history' # history
                       /\ orders'[r.orderId]
                            # AcceptedOutcome(orders[r.orderId], r.status))

\* the buyer and the provider both asked for the same edge of the same
\* PENDING order and both requests were committed
C28_Witness ==
    \E o \in Orders :
        /\ Len(history[o]) = 3
        /\ history[o][2].status = history[o][3].status
        /\ history[o][2].basedOn = 1 /\ history[o][3].basedOn = 1
        /\ history[o][2].changedBy = orders[o].clientId
        /\ history[o][3].changedBy = profiles[orders[o].freelancerId].userId
        /\ history[o][2].changedBy # history[o][3].changedBy

\* the counters of the gigs and of the provider profiles
Counters ==
    <<[g \in DOMAIN gigs |-> gigs[g].orderCount],
      [f \in DOMAIN profiles |-> <<profiles[f].orderCount, profiles[f].activeOrders>>]>>

\* C29: a step that changes a gig's orderCount or a profile's orderCount or
\* activeOrders is a commit of createOrder or of cancelOrder; no step that
\* answers an updateOrderStatus, with success or with an error, and no step
\* that sends no answer, as the one that takes an update past its checks to
\* its write, changes any of them.
C29_StatusUpdateKeepsCounters ==
    [][((gigs' # gigs \/ profiles' # profiles) /\ Counters' # Counters)
       => /\ resp'.op \notin {"updateOrderStatus", "NONE"}
          /\ \/ resp'.op = "createOrder" /\ resp'.http = 201
             \/ resp'.op = "cancelOrder" /\ resp'.cause = "OK"]_vars

\* an order was created, which raised the three counters, and then rejected
\* by a status update, which left them as they were
C29_Witness ==
    /\ resp = [op |-> "updateOrderStatus", http |-> 200, cause |-> "OK"]
    /\ \E o \in Orders :
         /\ orders[o].status = "REJECTED"
         /\ gigs[orders[o].gigId].orderCount = 1
         /\ profiles[orders[o].freelancerId].orderCount = 1
         /\ profiles[orders[o].freelancerId].activeOrders = 1

\* C30: in every reachable state every provider profile's activeOrders is
\* greater than or equal to 0.
C30_ActiveOrdersNonNegative ==
    \A f \in DOMAIN profiles :
        profiles[f].activeOrders >= 0

\* an order is stored whose counter update was not applied, and a cancel of
\* it has been answered: activeOrders is 0 and has not gone below
C30_Witness ==
    /\ resp.op = "cancelOrder" /\ resp.cause # "NotFound"
    /\ \E o \in Orders :
         /\ orders[o].status = "PENDING"
         /\ profiles[orders[o].freelancerId].activeOrders = 0

====
